---------------------------- MODULE Spec2Model ----------------------------
(***************************************************************************)
(* A model of the secure budget planner: the authentication manager        *)
(* (src/streamlit/auth_manager.py) and the encrypted ledger                *)
(* (src/streamlit/database.py).                                            *)
(*                                                                         *)
(* Time is counted in minutes.  datetime.now() and datetime.utcnow() are   *)
(* both read off the one variable clock: the code never compares a local   *)
(* with a UTC timestamp.  Calls made at one value of clock fall within the *)
(* same second, which is the resolution of a token's exp.  A NULL column   *)
(* is the integer NULL.                                                    *)
(***************************************************************************)
EXTENDS Integers, Sequences, FiniteSets, Bags, TLC

VARIABLES
    clock,      \* the wall clock, in minutes
    users,      \* table users: id -> row
    sessions,   \* table sessions: a bag of rows [user_id, token, expires_at]
    revoked,    \* history: every issued token that logout was called with
    streak,     \* history: username -> wrong-password login calls since the last success
    creds,      \* history: username -> the password and answer its owner last set
    last,       \* the most recent call: its operation, arguments and result
                \* (right: the password is the one the owner last set;
                \* pre_locked: locked_until as the call found it)
    salary,     \* table salary: a bag of rows [user_id, amount_encrypted, updated_at]
    transactions, \* table transactions: a bag of rows
    ledger,     \* history: what the callers of the ledger passed in (set, prev:
                \* the last salary of each user and the one before; added:
                \* the bag of the transactions added)
    lret,       \* the most recent ledger call and what it returned
    backups,    \* the backup directory: file name -> [content, mtime, owner]
                \* (owner is history: the user whose export wrote the file)
    calls,      \* the calls in flight on connections of their own:
                \* connection -> its position and what it has read so far
    writer,     \* the connection holding the write lock of budget.db, or 0
    app,        \* st.session_state of each browser session of the app
    key_file,   \* the content of encryption.key, or NoFile
    encryption_key, \* AuthManager instance -> its encryption_key, or NoKey
    constructing    \* AuthManager instance -> its position in __init__

authVars == <<clock, users, sessions, revoked, streak, creds, last>>
ledgerVars == <<salary, transactions, ledger, lret, backups>>
raceVars == <<calls, writer>>
keyVars == <<key_file, encryption_key, constructing>>
hostVars == <<app, key_file, encryption_key, constructing>>
vars == <<clock, users, sessions, revoked, streak, creds, last,
          salary, transactions, ledger, lret, backups, calls, writer,
          app, key_file, encryption_key, constructing>>

-----------------------------------------------------------------------------
(* Program constants *)

\* auth_manager.py:113  if failed_attempts >= 5
MAX_FAILED == 5
\* auth_manager.py:115  timedelta(minutes=30)
LOCK_MINUTES == 30
\* auth_manager.py:138, 145  timedelta(hours=24)
SESSION_HOURS == 24

SESSION_MINUTES == SESSION_HOURS * 60

(* Bounds of the model *)
MaxUsers == 2
MaxSessions == 2
MaxIssued == 2
MaxAttempts == 6
MaxWindows == 1

NULL == -1

Usernames == {"alice", "bob"}
Emails == {"a@x.org", "b@x.org"}
Passwords == {"hunter22", "letmein1"}
Answers == {"Rex", "rex", "REX", "Tom"}
Questions == {"What was your first pet's name?", "What city were you born in?"}
Salts == {"s1"}

\* The instants at which calls are made: the edges of the lock windows and
\* of a session's lifetime.
Offsets == {k * LOCK_MINUTES : k \in 0..MaxWindows}
Instants == {d * SESSION_MINUTES + o : d \in {0, 1}, o \in Offsets}

\* The instants of the session checks: a session issued at the second one
\* outlives a session issued at the first.
SessionInstants == {0, LOCK_MINUTES, SESSION_MINUTES}

-----------------------------------------------------------------------------
(* bcrypt *)

\* bcrypt.hashpw(password, salt): the salt is kept in the hash.
hashpw(password, salt) == [salt |-> salt, digest |-> <<salt, password>>]

\* auth_manager.py:64-66
verify_password(password, password_hash) ==
    hashpw(password, password_hash.salt) = password_hash

\* str.lower() on the answers of the model
Lower(s) ==
    CASE s = "Rex" -> "rex"
      [] s = "rex" -> "rex"
      [] s = "REX" -> "rex"
      [] s = "Tom" -> "tom"
      [] OTHER -> s


-----------------------------------------------------------------------------
(* PyJWT, HS256 *)

\* The secret of this AuthManager (auth_manager.py:24) and any other key.
JwtSecret == "secret"
OtherSecret == "forged"

NoToken == [user_id |-> 0, username |-> "", exp |-> 0, sig |-> ""]

\* auth_manager.py:135-139: jwt.encode signs {user_id, username, exp}.  The
\* encoding has no nonce: equal claims under one secret give equal tokens.
jwt_encode(user_id, username, exp, secret) ==
    [user_id |-> user_id, username |-> username, exp |-> exp, sig |-> secret]

\* auth_manager.py:155, 169-172: jwt.decode checks the signature first, then
\* the exp claim (PyJWT: expired when exp <= now).
jwt_decode(token, secret, now) ==
    IF token.sig # secret THEN "InvalidTokenError"
    ELSE IF token.exp <= now THEN "ExpiredSignatureError"
    ELSE "payload"

-----------------------------------------------------------------------------
(* Table helpers *)

\* auth_manager.py:96-97: SELECT * FROM users WHERE username = ?
UserIds(username) == {i \in DOMAIN users : users[i].username = username}

\* A users table whose email column is not UNIQUE
IntegrityErrorUsernameOnly(username, email) ==
    \E i \in DOMAIN users : users[i].username = username

\* auth_manager.py:36, 38: username TEXT UNIQUE, email TEXT UNIQUE
IntegrityError(username, email) ==
    \E i \in DOMAIN users :
        users[i].username = username \/ users[i].email = email

\* The lock test with its comparison turned round
AccountLockedReversed(user, now) ==
    user.locked_until # NULL /\ now > user.locked_until

\* auth_manager.py:104
AccountLocked(user, now) ==
    user.locked_until # NULL /\ now < user.locked_until

\* A count that starts again once a lock has expired
FailedAttemptFresh(user, now) ==
    LET failed_attempts == IF user.locked_until # NULL
                           THEN 1 ELSE user.failed_attempts + 1
        locked_until == IF failed_attempts >= MAX_FAILED
                        THEN now + LOCK_MINUTES ELSE NULL
    IN [user EXCEPT !.failed_attempts = failed_attempts,
                    !.locked_until = locked_until]

\* A lock that starts one failed attempt late
FailedAttemptLate(user, now) ==
    LET failed_attempts == user.failed_attempts + 1
        locked_until == IF failed_attempts > MAX_FAILED
                        THEN now + LOCK_MINUTES ELSE NULL
    IN [user EXCEPT !.failed_attempts = failed_attempts,
                    !.locked_until = locked_until]

\* auth_manager.py:110-121
FailedAttempt(user, now) ==
    LET failed_attempts == user.failed_attempts + 1
        locked_until == IF failed_attempts >= MAX_FAILED
                        THEN now + LOCK_MINUTES ELSE NULL
    IN [user EXCEPT !.failed_attempts = failed_attempts,
                    !.locked_until = locked_until]

\* A password update that also lifts the lock
PasswordUpdateUnlocking(user, new_password_hash) ==
    [user EXCEPT !.password_hash = new_password_hash,
                 !.failed_attempts = 0, !.locked_until = NULL]

\* auth_manager.py:191-192: UPDATE users SET password_hash = ? WHERE id = ?
PasswordUpdate(user, new_password_hash) ==
    [user EXCEPT !.password_hash = new_password_hash]

\* auth_manager.py:128-132
ResetAttempts(user, now) ==
    [user EXCEPT !.failed_attempts = 0, !.locked_until = NULL,
                 !.last_login = now]

\* auth_manager.py:142-145.  The rowid of a session is never read, so the
\* table is the bag of its rows without it.
NewSession(user_id, token, now) ==
    [user_id |-> user_id, token |-> token, expires_at |-> now + SESSION_MINUTES]

\* A logout that ends every session of the token's user
DeleteSessionsOfUser(token) ==
    LET owners == {r.user_id : r \in {x \in BagToSet(sessions) : x.token = token}}
    IN [s \in {r \in BagToSet(sessions) : r.user_id \notin owners} |-> sessions[s]]

\* auth_manager.py:212: DELETE FROM sessions WHERE token = ?
DeleteSessions(token) ==
    [s \in {r \in BagToSet(sessions) : r.token # token} |-> sessions[s]]

\* A session lookup that forgets the token
SessionRowsAnyToken(token, now) ==
    {s \in BagToSet(sessions) : s.expires_at > now}

\* auth_manager.py:159-161: SELECT * FROM sessions WHERE token = ? AND expires_at > ?
SessionRows(token, now) ==
    {s \in BagToSet(sessions) : s.token = token /\ s.expires_at > now}

\* An answer check that forgets to lower-case the answer
AnswerMatchesExactCase(security_answer, answer_hash) ==
    verify_password(security_answer, answer_hash)

\* auth_manager.py:186: the answer is lower-cased, then checked against the hash
AnswerMatches(security_answer, answer_hash) ==
    verify_password(Lower(security_answer), answer_hash)

-----------------------------------------------------------------------------
(* Results *)

NoCall == [op |-> "none", user |-> "", right |-> FALSE, pre_locked |-> NULL,
           arg |-> "", tok |-> NoToken, ok |-> FALSE, msg |-> "",
           token |-> NoToken, uid |-> 0]

\* auth_manager.py:101
NoSuchUser == [ok |-> FALSE, msg |-> "Invalid username or password"]
\* A wrong-password message of its own
WrongPasswordTold == [ok |-> FALSE, msg |-> "Invalid password"]
\* auth_manager.py:125
WrongPassword == [ok |-> FALSE, msg |-> "Invalid username or password"]
\* auth_manager.py:106
Locked == [ok |-> FALSE, msg |-> "Account is locked. Try again later."]

Min(a, b) == IF a < b THEN a ELSE b

NoCreds == [password |-> "", answer |-> ""]

\* Every token a login has returned: a session row is never dropped except
\* by logout.
Issued == {s.token : s \in BagToSet(sessions)} \cup revoked

-----------------------------------------------------------------------------
(* Python values of the ledger *)

\* A number is [kind, v]: an int or a float whose value is v hundredths.
PyInt(v) == [kind |-> "int", v |-> v]
PyFloatOf(v) == [kind |-> "float", v |-> v]
NoAmount == [kind |-> "none", v |-> 0]

\* str(amount): "50" for the int 50, "50.0" for the float 50.0
PyStr(amount) == [digits |-> amount.v, point |-> amount.kind = "float"]

\* float(text): the float of either spelling
PyFloat(text) == [kind |-> "float", v |-> text.digits]

\* a == b on numbers: an int and a float of one value are equal
NumEq(a, b) == a.kind # "none" /\ b.kind # "none" /\ a.v = b.v

\* A date is [type |-> "date", day] and None is NoDate; sqlite3 adapts a
\* date to its ISO text, and the ISO texts of two dates order as the dates do.
PyDate(day) == [type |-> "date", day |-> day]
NoDate == [type |-> "none", day |-> 0]
AdaptDate(date) == [type |-> "str", day |-> date.day]

\* auth_manager.py:11-23: the key of this process
EncryptionKey == "key1"

\* auth_manager.py:199-201
encrypt_data(data) == [key |-> EncryptionKey, plain |-> data]

\* auth_manager.py:203-205
decrypt_data(encrypted_data) == encrypted_data.plain

-----------------------------------------------------------------------------
(* AuthManager *)

InitAuth ==
    /\ clock = 0
    /\ users = << >>
    /\ sessions = EmptyBag
    /\ revoked = {}
    /\ streak = [u \in Usernames |-> 0]
    /\ creds = [u \in Usernames |-> NoCreds]
    /\ last = NoCall

\* auth_manager.py:68-89
create_user(username, password, email, security_question, security_answer) ==
    /\ IF IntegrityError(username, email)
       THEN /\ last' = [NoCall EXCEPT !.op = "create_user", !.user = username,
                                      !.arg = email, !.ok = FALSE]
            /\ UNCHANGED <<users, creds>>
       ELSE /\ Len(users) < MaxUsers
            /\ \E s1 \in Salts, s2 \in Salts :
                 users' = Append(users,
                    [username |-> username,
                     password_hash |-> hashpw(password, s1),
                     email |-> email,
                     security_question |-> security_question,
                     security_answer_hash |-> hashpw(Lower(security_answer), s2),
                     last_login |-> NULL,
                     failed_attempts |-> 0,
                     locked_until |-> NULL])
            /\ creds' = [creds EXCEPT ![username] =
                            [password |-> password, answer |-> security_answer]]
            /\ last' = [NoCall EXCEPT !.op = "create_user", !.user = username,
                                      !.arg = email, !.ok = TRUE]
    /\ UNCHANGED <<clock, sessions, revoked, streak>>
    /\ UNCHANGED ledgerVars
    /\ UNCHANGED raceVars
    /\ UNCHANGED hostVars

\* auth_manager.py:91-150
login(username, password) ==
    /\ IF UserIds(username) = {}
       THEN /\ last' = [NoCall EXCEPT !.op = "login", !.user = username,
                                      !.ok = NoSuchUser.ok, !.msg = NoSuchUser.msg]
            /\ UNCHANGED <<users, sessions, streak>>
       ELSE LET id == CHOOSE i \in UserIds(username) : TRUE
                user == users[id]
                pwok == verify_password(password, user.password_hash)
                token == jwt_encode(id, user.username, clock + SESSION_MINUTES,
                                    JwtSecret)
                call == [NoCall EXCEPT !.op = "login", !.user = username,
                                       !.right = (password = creds[username].password),
                                       !.pre_locked = user.locked_until]
            IN IF AccountLocked(user, clock)
               THEN /\ last' = [call EXCEPT !.ok = Locked.ok, !.msg = Locked.msg]
                    /\ streak' = IF pwok THEN streak
                                 ELSE [streak EXCEPT ![username] = Min(@ + 1, MAX_FAILED)]
                    /\ UNCHANGED <<users, sessions>>
               ELSE IF ~pwok
               THEN /\ user.failed_attempts < MaxAttempts
                    /\ users' = [users EXCEPT ![id] = FailedAttempt(user, clock)]
                    /\ last' = [call EXCEPT !.ok = WrongPassword.ok,
                                            !.msg = WrongPassword.msg]
                    /\ streak' = [streak EXCEPT ![username] = Min(@ + 1, MAX_FAILED)]
                    /\ UNCHANGED sessions
               ELSE /\ BagCardinality(sessions) < MaxSessions
                    /\ Cardinality(Issued \cup {token}) <= MaxIssued
                    /\ users' = [users EXCEPT ![id] = ResetAttempts(user, clock)]
                    /\ sessions' = sessions (+) SetToBag({NewSession(id, token, clock)})
                    /\ streak' = [streak EXCEPT ![username] = 0]
                    /\ last' = [call EXCEPT !.ok = TRUE, !.token = token, !.uid = id]
    /\ UNCHANGED <<clock, revoked, creds>>
    /\ UNCHANGED ledgerVars
    /\ UNCHANGED raceVars
    /\ UNCHANGED keyVars

\* auth_manager.py:152-172: what verify_token returns, as [ok, msg, uid];
\* the payload of a valid token carries the user_id.
VerifyResult(token, now) ==
    LET decoded == jwt_decode(token, JwtSecret, now)
    IN IF decoded = "ExpiredSignatureError"
       THEN [ok |-> FALSE, msg |-> "Token has expired", uid |-> 0]
       ELSE IF decoded = "InvalidTokenError"
       THEN [ok |-> FALSE, msg |-> "Invalid token", uid |-> 0]
       ELSE IF SessionRows(token, now) = {}
       THEN [ok |-> FALSE, msg |-> "None", uid |-> 0]
       ELSE [ok |-> TRUE, msg |-> "", uid |-> token.user_id]

\* auth_manager.py:152-172
verify_token(token) ==
    /\ LET res == VerifyResult(token, clock)
       IN last' = [NoCall EXCEPT !.op = "verify_token", !.tok = token,
                                 !.ok = res.ok, !.msg = res.msg, !.uid = res.uid]
    /\ UNCHANGED <<clock, users, sessions, revoked, streak, creds>>
    /\ UNCHANGED ledgerVars
    /\ UNCHANGED raceVars
    /\ UNCHANGED hostVars

\* auth_manager.py:174-197
reset_password(username, security_answer, new_password) ==
    /\ LET call == [NoCall EXCEPT !.op = "reset_password", !.user = username,
                                  !.arg = security_answer]
       IN IF UserIds(username) = {}
          THEN /\ last' = [call EXCEPT !.ok = FALSE]
               /\ UNCHANGED <<users, creds>>
          ELSE LET id == CHOOSE i \in UserIds(username) : TRUE
                   user == users[id]
               IN IF ~AnswerMatches(security_answer, user.security_answer_hash)
                  THEN /\ last' = [call EXCEPT !.ok = FALSE]
                       /\ UNCHANGED <<users, creds>>
                  ELSE /\ \E s \in Salts :
                            users' = [users EXCEPT ![id] =
                                          PasswordUpdate(user, hashpw(new_password, s))]
                       /\ creds' = [creds EXCEPT ![username].password = new_password]
                       /\ last' = [call EXCEPT !.ok = TRUE]
    /\ UNCHANGED <<clock, sessions, revoked, streak>>
    /\ UNCHANGED ledgerVars
    /\ UNCHANGED raceVars
    /\ UNCHANGED hostVars

\* auth_manager.py:207-216
logout(token) ==
    /\ sessions' = DeleteSessions(token)
    /\ revoked' = revoked \cup ({token} \cap Issued)
    /\ last' = [NoCall EXCEPT !.op = "logout", !.tok = token, !.ok = TRUE]
    /\ UNCHANGED <<clock, users, streak, creds>>
    /\ UNCHANGED ledgerVars
    /\ UNCHANGED raceVars
    /\ UNCHANGED keyVars

\* Time passes between calls.
Tick(t) ==
    /\ t > clock
    /\ clock' = t
    /\ last' = NoCall
    /\ UNCHANGED <<users, sessions, revoked, streak, creds>>
    /\ UNCHANGED ledgerVars
    /\ UNCHANGED raceVars
    /\ UNCHANGED hostVars

\* The tokens a caller may present: the issued ones, the same claims signed
\* with another key, and a well-signed token the sessions table never held.
StrayToken == jwt_encode(1, "alice", 3 * SESSION_MINUTES, JwtSecret)
Forged(token) == [token EXCEPT !.sig = OtherSecret]
Presented == Issued \cup {Forged(t) : t \in Issued} \cup {StrayToken}

-----------------------------------------------------------------------------
(* Concurrent logins *)

\* The connections of the concurrent callers
Procs == {1, 2}
Idle == [pc |-> "idle"]

\* Each login opens a connection of its own (auth_manager.py:93), reads the
\* user with one statement and writes with a later one; the statements of
\* the callers interleave.

\* auth_manager.py:93-101: SELECT * FROM users WHERE username = ?
login_select(p, username, password) ==
    /\ calls[p].pc = "idle"
    /\ UserIds(username) # {}
    /\ LET id == CHOOSE i \in UserIds(username) : TRUE
       IN calls' = [calls EXCEPT ![p] =
                       [pc |-> "login", username |-> username,
                        password |-> password, id |-> id, user |-> users[id]]]
    /\ UNCHANGED <<clock, users, sessions, revoked, streak, creds, last, writer>>
    /\ UNCHANGED ledgerVars
    /\ UNCHANGED hostVars

\* An update that sets locked_until only when it locks
FailedAttemptUpdateCountOnly(row, user, now) ==
    [row EXCEPT !.failed_attempts = FailedAttempt(user, now).failed_attempts,
                !.locked_until = IF FailedAttempt(user, now).locked_until = NULL
                                 THEN @ ELSE FailedAttempt(user, now).locked_until]

\* auth_manager.py:117-121: UPDATE users SET failed_attempts = ?,
\* locked_until = ? WHERE id = ?, with the values computed from the row as
\* it was read
FailedAttemptUpdate(row, user, now) ==
    [row EXCEPT !.failed_attempts = FailedAttempt(user, now).failed_attempts,
                !.locked_until = FailedAttempt(user, now).locked_until]

\* auth_manager.py:128-132: UPDATE users SET failed_attempts = 0,
\* locked_until = NULL, last_login = ? WHERE id = ?
ResetAttemptsUpdate(row, now) ==
    [row EXCEPT !.failed_attempts = ResetAttempts(row, now).failed_attempts,
                !.locked_until = ResetAttempts(row, now).locked_until,
                !.last_login = ResetAttempts(row, now).last_login]

\* auth_manager.py:103-150: the rest of the login, on the row read before
login_finish(p) ==
    /\ calls[p].pc = "login"
    /\ LET username == calls[p].username
           password == calls[p].password
           id == calls[p].id
           user == calls[p].user
           pwok == verify_password(password, user.password_hash)
           token == jwt_encode(id, user.username, clock + SESSION_MINUTES,
                               JwtSecret)
           call == [NoCall EXCEPT !.op = "login", !.user = username,
                                  !.right = (password = creds[username].password),
                                  !.pre_locked = user.locked_until]
       IN IF AccountLocked(user, clock)
          THEN /\ last' = [call EXCEPT !.ok = Locked.ok, !.msg = Locked.msg]
               /\ streak' = IF pwok THEN streak
                            ELSE [streak EXCEPT ![username] = Min(@ + 1, MAX_FAILED)]
               /\ UNCHANGED <<users, sessions>>
          ELSE IF ~pwok
          THEN /\ user.failed_attempts < MaxAttempts
               /\ users' = [users EXCEPT ![id] = FailedAttemptUpdate(@, user, clock)]
               /\ last' = [call EXCEPT !.ok = WrongPassword.ok,
                                       !.msg = WrongPassword.msg]
               /\ streak' = [streak EXCEPT ![username] = Min(@ + 1, MAX_FAILED)]
               /\ UNCHANGED sessions
          ELSE /\ BagCardinality(sessions) < MaxSessions
               /\ Cardinality(Issued \cup {token}) <= MaxIssued
               /\ users' = [users EXCEPT ![id] = ResetAttemptsUpdate(@, clock)]
               /\ sessions' = sessions (+) SetToBag({NewSession(id, token, clock)})
               /\ streak' = [streak EXCEPT ![username] = 0]
               /\ last' = [call EXCEPT !.ok = TRUE, !.token = token, !.uid = id]
    /\ calls' = [calls EXCEPT ![p] = Idle]
    /\ UNCHANGED <<clock, revoked, creds, writer>>
    /\ UNCHANGED ledgerVars
    /\ UNCHANGED hostVars

-----------------------------------------------------------------------------
(* BudgetDatabase *)

MaxTx == 3

\* user_id None, and the ids of two users
Unbound == 0
LedgerUsers == {1, 2}
Amounts == {PyFloatOf(0), PyInt(5000), PyFloatOf(123456)}
Days == {1, 2, 3}
\* What is bought: amount, category and description
Purchases == {[amount |-> PyInt(5000), category |-> "Needs", description |-> "rent"],
              [amount |-> PyFloatOf(1250), category |-> "Wants", description |-> ""]}

\* database.py:13-15: the backup directory as makedirs leaves it
NoFiles == [n \in {} |-> 0]

NoReturn == [op |-> "none", uid |-> 0, raised |-> "", amount |-> NoAmount,
             rows |-> << >>, start |-> NoDate, end |-> NoDate,
             ok |-> FALSE, path |-> [prefix |-> NULL, stamp |-> NULL],
             totals |-> << >>, files |-> << >>]

InitLedger ==
    /\ salary = EmptyBag
    /\ transactions = EmptyBag
    /\ ledger = [set |-> [u \in LedgerUsers |-> NoAmount],
                 prev |-> [u \in LedgerUsers |-> NoAmount],
                 added |-> EmptyBag]
    /\ lret = NoReturn
    /\ backups = NoFiles

\* No call is in flight.
InitRace ==
    /\ calls = [p \in Procs |-> Idle]
    /\ writer = 0

\* database.py:49-50 (and in every other operation): if not self.user_id
Unauthenticated(user_id) == user_id = Unbound

\* A check that lets the call through
RaisedNothing(op, user_id) == [NoReturn EXCEPT !.op = op, !.uid = user_id]

\* database.py:50: raise ValueError("User not authenticated")
Raised(op, user_id) ==
    [NoReturn EXCEPT !.op = op, !.uid = user_id,
                     !.raised = "ValueError: User not authenticated"]

\* The rows of a bag that satisfy keep
BagFilter(B, keep(_)) == [r \in {x \in BagToSet(B) : keep(x)} |-> B[r]]

\* An update that forgets to delete the old row
DeleteSalaryNothing(user_id) == salary

\* database.py:56: DELETE FROM salary WHERE user_id = ?
DeleteSalary(user_id) ==
    LET others(r) == r.user_id # user_id IN BagFilter(salary, others)

\* database.py:55-58: the row update_salary inserts; updated_at defaults to
\* CURRENT_TIMESTAMP
SalaryRow(user_id, amount, now) ==
    [user_id |-> user_id, amount_encrypted |-> encrypt_data(PyStr(amount)),
     updated_at |-> now]

\* database.py:47-60
update_salary(user_id, amount) ==
    /\ IF Unauthenticated(user_id)
       THEN /\ lret' = Raised("update_salary", user_id)
            /\ UNCHANGED <<salary, ledger>>
       ELSE /\ salary' = DeleteSalary(user_id)
                            (+) SetToBag({SalaryRow(user_id, amount, clock)})
            /\ ledger' = [ledger EXCEPT !.set[user_id] = amount,
                                        !.prev[user_id] = ledger.set[user_id]]
            /\ lret' = [NoReturn EXCEPT !.op = "update_salary", !.uid = user_id]
    /\ UNCHANGED <<transactions, clock>>
    /\ UNCHANGED <<users, sessions, revoked, streak, creds, last>>
    /\ UNCHANGED <<backups, calls, writer>>
    /\ UNCHANGED hostVars

\* database.py:69-71: SELECT ... WHERE user_id = ? ORDER BY updated_at DESC
\* LIMIT 1: a row of the user with the latest updated_at, any of them when
\* several rows share it.
LatestSalaryRows(user_id) ==
    {r \in BagToSet(salary) :
        /\ r.user_id = user_id
        /\ \A o \in BagToSet(salary) :
              o.user_id = user_id => o.updated_at <= r.updated_at}

\* database.py:62-78
get_salary(user_id) ==
    /\ IF Unauthenticated(user_id)
       THEN lret' = Raised("get_salary", user_id)
       ELSE IF LatestSalaryRows(user_id) = {}
       THEN lret' = [NoReturn EXCEPT !.op = "get_salary", !.uid = user_id,
                                     !.amount = PyFloatOf(0)]
       ELSE \E result \in LatestSalaryRows(user_id) :
              lret' = [NoReturn EXCEPT !.op = "get_salary", !.uid = user_id,
                          !.amount = PyFloat(decrypt_data(result.amount_encrypted))]
    /\ UNCHANGED <<salary, transactions, ledger, clock>>
    /\ UNCHANGED <<users, sessions, revoked, streak, creds, last>>
    /\ UNCHANGED <<backups, calls, writer>>
    /\ UNCHANGED hostVars

\* A row whose description is always the default one
TransactionRowNoDescription(user_id, date, amount, category, description) ==
    [user_id |-> user_id, date |-> AdaptDate(date),
     amount_encrypted |-> encrypt_data(PyStr(amount)),
     category |-> category,
     description_encrypted |-> encrypt_data("")]

\* database.py:89-96: the row add_transaction inserts.  The rowid and
\* created_at (a default no code reads) are left out.
TransactionRow(user_id, date, amount, category, description) ==
    [user_id |-> user_id, date |-> AdaptDate(date),
     amount_encrypted |-> encrypt_data(PyStr(amount)),
     category |-> category,
     description_encrypted |-> encrypt_data(description)]

\* database.py:80-99
add_transaction(user_id, date, amount, category, description) ==
    /\ IF Unauthenticated(user_id)
       THEN /\ lret' = Raised("add_transaction", user_id)
            /\ UNCHANGED <<transactions, ledger>>
       ELSE /\ BagCardinality(transactions) < MaxTx
            /\ transactions' = transactions (+) SetToBag(
                  {TransactionRow(user_id, date, amount, category, description)})
            /\ ledger' = [ledger EXCEPT !.added = @ (+) SetToBag(
                  {[user_id |-> user_id, date |-> date, amount |-> amount,
                    category |-> category, description |-> description]})]
            /\ lret' = [NoReturn EXCEPT !.op = "add_transaction", !.uid = user_id]
    /\ UNCHANGED <<salary, clock>>
    /\ UNCHANGED <<users, sessions, revoked, streak, creds, last>>
    /\ UNCHANGED <<backups, calls, writer>>
    /\ UNCHANGED hostVars

\* database.py:110-115: WHERE user_id = ? [AND date BETWEEN ? AND ?]; the
\* range is applied only when both bounds are given.
Selected(row, user_id, start_date, end_date) ==
    /\ row.user_id = user_id
    /\ (start_date # NoDate /\ end_date # NoDate) =>
          (AdaptDate(start_date).day <= row.date.day
              /\ row.date.day <= AdaptDate(end_date).day)

\* database.py:123-129: a row as returned, with its decrypted fields added
Decrypted(row) ==
    [user_id |-> row.user_id, date |-> row.date,
     amount_encrypted |-> row.amount_encrypted, category |-> row.category,
     description_encrypted |-> row.description_encrypted,
     amount |-> PyFloat(decrypt_data(row.amount_encrypted)),
     description |-> decrypt_data(row.description_encrypted)]

\* The bag of the elements of a sequence
SeqToBag(seq) ==
    [x \in {seq[i] : i \in DOMAIN seq} |->
        Cardinality({i \in DOMAIN seq : seq[i] = x})]

\* database.py:117: ORDER BY date DESC
DateDescending(seq) ==
    \A i \in DOMAIN seq : \A j \in DOMAIN seq :
        i < j => seq[i].date.day >= seq[j].date.day

\* database.py:110-121: the orders in which the query may return the selected
\* rows (rows of one date come in any order)
QueryResults(user_id, start_date, end_date) ==
    LET sel(r) == Selected(r, user_id, start_date, end_date)
        rows == BagFilter(transactions, sel)
        n == BagCardinality(rows)
    IN {seq \in [1..n -> BagToSet(rows)] :
           SeqToBag(seq) = rows /\ DateDescending(seq)}

\* database.py:101-131
get_transactions(user_id, start_date, end_date) ==
    /\ IF Unauthenticated(user_id)
       THEN lret' = Raised("get_transactions", user_id)
       ELSE \E encrypted_transactions \in QueryResults(user_id, start_date, end_date) :
              lret' = [NoReturn EXCEPT
                          !.op = "get_transactions", !.uid = user_id,
                          !.start = start_date, !.end = end_date,
                          !.rows = [i \in DOMAIN encrypted_transactions |->
                                       Decrypted(encrypted_transactions[i])]]
    /\ UNCHANGED <<salary, transactions, ledger, clock>>
    /\ UNCHANGED <<users, sessions, revoked, streak, creds, last>>
    /\ UNCHANGED <<backups, calls, writer>>
    /\ UNCHANGED hostVars

\* Time passes between the calls of the ledger.
LedgerTick(t) ==
    /\ t > clock
    /\ clock' = t
    /\ lret' = NoReturn
    /\ UNCHANGED <<salary, transactions, ledger>>
    /\ UNCHANGED <<users, sessions, revoked, streak, creds, last>>
    /\ UNCHANGED <<backups, calls, writer>>
    /\ UNCHANGED hostVars

-----------------------------------------------------------------------------
(* Backups *)

\* A file name is [prefix, stamp]: "budget_backup_<prefix>_<stamp>.db", and
\* prefix 0 is a name that starts with no user's prefix.
\* database.py:152
BackupName(user_id, now) == [prefix |-> user_id, stamp |-> now]
\* backup_name=None
NoName == [prefix |-> NULL, stamp |-> NULL]
\* A file copied into the backup directory by hand
Restored == [prefix |-> 0, stamp |-> 0]
\* A path at which there is no file
Missing == [prefix |-> 0, stamp |-> 1]

\* The value of a number
ValueOf(number) == number.v

\* bool(number): 0 and 0.0 are false
Truthy(number) == number.kind # "none" /\ ValueOf(number) # 0

\* BLOB columns come back as bytes: the fields of a returned row that hold
\* bytes
BytesFields(row) ==
    {"amount_encrypted", "description_encrypted"} \cap DOMAIN row

\* database.py:163: json.dumps raises TypeError on a value of type bytes
JsonSerializable(data) ==
    \A i \in DOMAIN data.transactions : BytesFields(data.transactions[i]) = {}

\* database.py:163: json.dumps(data), as a document [kind, keys, salary,
\* transactions]; a number is written as str writes it
json_dumps(data) ==
    [kind |-> "json", keys |-> {"salary", "transactions"},
     salary |-> PyStr(data.salary),
     transactions |-> [i \in DOMAIN data.transactions |->
         [date |-> data.transactions[i].date,
          amount |-> PyStr(data.transactions[i].amount),
          category |-> data.transactions[i].category,
          description |-> data.transactions[i].description]]]

\* database.py:182: json.loads reads a number with a point as a float and
\* one without as an int
JsonNumber(text) ==
    [kind |-> IF text.point THEN "float" ELSE "int", v |-> text.digits]

\* database.py:182: does json.loads accept the text
IsJson(text) == text.kind = "json"

\* auth_manager.py:203-205: Fernet.decrypt raises InvalidToken on a
\* ciphertext made under another key
Decryptable(encrypted_data) == encrypted_data.key = EncryptionKey

\* database.py:199: strptime(text, '%Y-%m-%d') raises ValueError on a text
\* that is no date
IsDateText(text) == text.type = "str" /\ text.day >= 1

\* database.py:199: datetime.strptime(trans['date'], '%Y-%m-%d').date()
strptime(text) == PyDate(text.day)

\* database.py:198-203: the entries add_transaction is reached with: those
\* before the first malformed one
RECURSIVE WellFormedPrefix(_)
WellFormedPrefix(entries) ==
    IF entries = << >> THEN << >>
    ELSE IF ~IsDateText(Head(entries).date) THEN << >>
    ELSE <<Head(entries)>> \o WellFormedPrefix(Tail(entries))

\* An import that leaves the old transactions in place
DeleteTransactionsNothing(user_id) == transactions

\* database.py:188: DELETE FROM transactions WHERE user_id = ?
DeleteTransactions(user_id) ==
    LET others(r) == r.user_id # user_id IN BagFilter(transactions, others)

\* database.py:62-78: what get_salary may return
SalaryRead(user_id) ==
    IF LatestSalaryRows(user_id) = {} THEN {PyFloatOf(0)}
    ELSE {PyFloat(decrypt_data(r.amount_encrypted)) : r \in LatestSalaryRows(user_id)}

RECURSIVE SumOf(_, _)
\* database.py:140-143: totals.get(category, 0) + amount over the rows
SumOf(rows, category) ==
    IF rows = << >> THEN 0
    ELSE (IF Head(rows).category = category THEN ValueOf(Head(rows).amount) ELSE 0)
            + SumOf(Tail(rows), category)

\* database.py:133-144
get_category_totals(user_id, start_date, end_date) ==
    /\ IF Unauthenticated(user_id)
       THEN lret' = Raised("get_category_totals", user_id)
       ELSE \E encrypted_transactions \in QueryResults(user_id, start_date, end_date) :
              LET rows == [i \in DOMAIN encrypted_transactions |->
                              Decrypted(encrypted_transactions[i])]
                  cats == {rows[i].category : i \in DOMAIN rows}
              IN lret' = [NoReturn EXCEPT
                             !.op = "get_category_totals", !.uid = user_id,
                             !.start = start_date, !.end = end_date,
                             !.totals = [c \in cats |-> PyFloatOf(SumOf(rows, c))]]
    /\ UNCHANGED <<salary, transactions, ledger, clock, backups>>
    /\ UNCHANGED <<users, sessions, revoked, streak, creds, last>>
    /\ UNCHANGED <<calls, writer>>
    /\ UNCHANGED hostVars

\* database.py:146-169
export_database(user_id, backup_name) ==
    /\ IF Unauthenticated(user_id)
       THEN /\ lret' = Raised("export_database", user_id)
            /\ UNCHANGED backups
       ELSE \E amount \in SalaryRead(user_id),
               encrypted_transactions \in QueryResults(user_id, NoDate, NoDate) :
              LET name == IF backup_name = NoName
                          THEN BackupName(user_id, clock) ELSE backup_name
                  data == [salary |-> amount,
                           transactions |->
                               [i \in DOMAIN encrypted_transactions |->
                                   Decrypted(encrypted_transactions[i])]]
                  file == [content |-> encrypt_data(json_dumps(data)),
                           mtime |-> clock, owner |-> user_id]
              IN IF ~JsonSerializable(data)
                 THEN /\ lret' = [NoReturn EXCEPT
                                     !.op = "export_database", !.uid = user_id,
                                     !.raised = "TypeError: Object of type bytes is not JSON serializable"]
                      /\ UNCHANGED backups
                 ELSE /\ backups' = [n \in DOMAIN backups \cup {name} |->
                                        IF n = name THEN file ELSE backups[n]]
                      /\ lret' = [NoReturn EXCEPT
                                     !.op = "export_database", !.uid = user_id,
                                     !.path = name]
    /\ UNCHANGED <<salary, transactions, ledger, clock>>
    /\ UNCHANGED <<users, sessions, revoked, streak, creds, last>>
    /\ UNCHANGED <<calls, writer>>
    /\ UNCHANGED hostVars

\* database.py:178-182: can the backup be read, decrypted and parsed
Readable(backup_path) ==
    /\ backup_path \in DOMAIN backups
    /\ Decryptable(backups[backup_path].content)
    /\ IsJson(decrypt_data(backups[backup_path].content))

\* database.py:184-190 are reached, and the DELETEs committed, as soon as
\* the backup has parsed as JSON, whatever the document holds.

\* database.py:192-194: the salary rows once the salary of the backup has
\* been imported
ImportedSalary(user_id, data) ==
    IF "salary" \in data.keys /\ Truthy(JsonNumber(data.salary))
    THEN DeleteSalary(user_id) (+) SetToBag(
            {SalaryRow(user_id, PyFloatOf(ValueOf(JsonNumber(data.salary))), clock)})
    ELSE DeleteSalary(user_id)

\* database.py:197-203: the transaction rows once the entries of the backup
\* have been added, up to the first that raises
ImportedTransactions(user_id, data) ==
    LET entries == IF {"salary", "transactions"} \subseteq data.keys
                   THEN WellFormedPrefix(data.transactions) ELSE << >>
    IN DeleteTransactions(user_id) (+) SeqToBag(
          [i \in DOMAIN entries |->
              TransactionRow(user_id, strptime(entries[i].date),
                             PyFloatOf(ValueOf(JsonNumber(entries[i].amount))),
                             entries[i].category, entries[i].description)])

\* What the history holds after an import: the deleted rows of the user are
\* forgotten, and the calls the import makes to update_salary and
\* add_transaction are recorded as a caller's are.
ImportedHistory(user_id, data) ==
    LET others(c) == c.user_id # user_id
        entries == IF {"salary", "transactions"} \subseteq data.keys
                   THEN WellFormedPrefix(data.transactions) ELSE << >>
        amount == IF "salary" \in data.keys /\ Truthy(JsonNumber(data.salary))
                  THEN PyFloatOf(ValueOf(JsonNumber(data.salary))) ELSE NoAmount
    IN [set |-> [ledger.set EXCEPT ![user_id] = amount],
        prev |-> [ledger.prev EXCEPT ![user_id] = NoAmount],
        added |-> BagFilter(ledger.added, others) (+) SeqToBag(
            [i \in DOMAIN entries |->
                [user_id |-> user_id, date |-> strptime(entries[i].date),
                 amount |-> PyFloatOf(ValueOf(JsonNumber(entries[i].amount))),
                 category |-> entries[i].category,
                 description |-> entries[i].description]])]

\* database.py:171-208
import_database(user_id, backup_path) ==
    /\ IF Unauthenticated(user_id)
       THEN /\ lret' = Raised("import_database", user_id)
            /\ UNCHANGED <<salary, transactions, ledger>>
       ELSE LET call == [NoReturn EXCEPT !.op = "import_database",
                                         !.uid = user_id, !.path = backup_path]
            IN IF ~Readable(backup_path)
               THEN /\ lret' = [call EXCEPT !.ok = FALSE]
                    /\ UNCHANGED <<salary, transactions, ledger>>
               ELSE LET data == decrypt_data(backups[backup_path].content)
                        whole == /\ "salary" \in data.keys
                                 /\ "transactions" \in data.keys
                                 /\ WellFormedPrefix(data.transactions)
                                       = data.transactions
                    IN /\ salary' = ImportedSalary(user_id, data)
                       /\ transactions' = ImportedTransactions(user_id, data)
                       /\ BagCardinality(transactions') <= MaxTx
                       /\ ledger' = ImportedHistory(user_id, data)
                       /\ lret' = [call EXCEPT !.ok = whole]
    /\ UNCHANGED <<clock, backups>>
    /\ UNCHANGED <<users, sessions, revoked, streak, creds, last>>
    /\ UNCHANGED <<calls, writer>>
    /\ UNCHANGED hostVars

\* database.py:216-217: the files whose name starts with the user's prefix
OwnBackups(user_id) == {n \in DOMAIN backups : n.prefix = user_id}

\* database.py:225: sorted by created_at, newest first
NewestFirst(seq) ==
    \A i \in DOMAIN seq : \A j \in DOMAIN seq :
        i < j => backups[seq[i]].mtime >= backups[seq[j]].mtime

\* database.py:210-225
list_backups(user_id) ==
    /\ IF Unauthenticated(user_id)
       THEN lret' = Raised("list_backups", user_id)
       ELSE \E files \in {seq \in [1..Cardinality(OwnBackups(user_id)) -> OwnBackups(user_id)] :
                             /\ {seq[i] : i \in DOMAIN seq} = OwnBackups(user_id)
                             /\ NewestFirst(seq)} :
              lret' = [NoReturn EXCEPT !.op = "list_backups", !.uid = user_id,
                                       !.files = files]
    /\ UNCHANGED <<salary, transactions, ledger, clock, backups>>
    /\ UNCHANGED <<users, sessions, revoked, streak, creds, last>>
    /\ UNCHANGED <<calls, writer>>
    /\ UNCHANGED hostVars

-----------------------------------------------------------------------------
(* Concurrent ledger calls *)

\* Each ledger call opens a connection of its own (database.py:52, 67, 185);
\* the statements of the callers interleave, and a SELECT of one connection
\* reads what the others have committed.

\* A connection in autocommit mode
IsolationLevelNone == "autocommit"

\* database.py:52: sqlite3.connect(self.db_name) leaves isolation_level at
\* its default, under which the module opens a transaction before a DELETE
\* or an INSERT and keeps it open until conn.commit()
IsolationLevel == "deferred"

\* A database that lets every writer in at once
WriteLockFreeAlways(p) == TRUE

\* database.py:56, 187: the first write of a transaction takes the write
\* lock of the database file, which one connection holds at a time
WriteLockFree(p) == writer \in {0, p}

\* The rows of a user
RowsOf(table, user_id) ==
    LET mine(r) == r.user_id = user_id IN BagFilter(table, mine)

\* What a connection carries: its position, the call it serves and its
\* arguments, the rows its open transaction has deleted and inserted, and the
\* entries of the backup still to be added
Conn(pc, op, user_id, amount, todo, keys, path) ==
    [pc |-> pc, op |-> op, uid |-> user_id, amount |-> amount,
     deleted |-> EmptyBag, tdeleted |-> EmptyBag, inserted |-> EmptyBag,
     todo |-> todo, keys |-> keys, path |-> path]

\* database.py:47-55: update_salary is called with a bound user
us_call(p, user_id, amount) ==
    /\ calls[p].pc = "idle"
    /\ ~Unauthenticated(user_id)
    /\ calls' = [calls EXCEPT ![p] =
                    Conn("us_delete", "update_salary", user_id, amount,
                         << >>, {}, NoName)]
    /\ UNCHANGED <<salary, transactions, ledger, lret, backups, writer>>
    /\ UNCHANGED authVars
    /\ UNCHANGED hostVars

\* database.py:56: DELETE FROM salary WHERE user_id = ?
us_delete(p) ==
    /\ calls[p].pc = "us_delete"
    /\ WriteLockFree(p)
    /\ IF IsolationLevel = "autocommit"
       THEN /\ salary' = DeleteSalary(calls[p].uid)
            /\ calls' = [calls EXCEPT ![p].pc = "us_insert"]
            /\ UNCHANGED writer
       ELSE /\ writer' = p
            /\ calls' = [calls EXCEPT ![p].pc = "us_insert",
                                      ![p].deleted = RowsOf(salary, calls[p].uid)]
            /\ UNCHANGED salary
    /\ UNCHANGED <<transactions, ledger, lret, backups>>
    /\ UNCHANGED authVars
    /\ UNCHANGED hostVars

\* database.py:57-58: INSERT INTO salary (user_id, amount_encrypted)
us_insert(p) ==
    /\ calls[p].pc = "us_insert"
    /\ WriteLockFree(p)
    /\ LET row == SalaryRow(calls[p].uid, calls[p].amount, clock)
       IN IF IsolationLevel = "autocommit"
          THEN /\ salary' = salary (+) SetToBag({row})
               /\ calls' = [calls EXCEPT ![p].pc = "us_commit"]
          ELSE /\ calls' = [calls EXCEPT ![p].pc = "us_commit",
                                         ![p].inserted = SetToBag({row})]
               /\ UNCHANGED salary
    /\ UNCHANGED <<transactions, ledger, lret, backups, writer>>
    /\ UNCHANGED authVars
    /\ UNCHANGED hostVars

\* database.py:59-60: conn.commit() makes the deletes and the insert of the
\* transaction visible together; update_salary returns, to its caller or to
\* import_database (line 194)
us_commit(p) ==
    /\ calls[p].pc = "us_commit"
    /\ salary' = (salary (-) calls[p].deleted) (+) calls[p].inserted
    /\ writer' = IF writer = p THEN 0 ELSE writer
    /\ ledger' = [ledger EXCEPT !.set[calls[p].uid] = calls[p].amount,
                                !.prev[calls[p].uid] = ledger.set[calls[p].uid]]
    /\ IF calls[p].op = "update_salary"
       THEN /\ calls' = [calls EXCEPT ![p] = Idle]
            /\ lret' = [NoReturn EXCEPT !.op = "update_salary", !.uid = calls[p].uid]
       ELSE /\ calls' = [calls EXCEPT ![p].pc = "im_add",
                                      ![p].deleted = EmptyBag,
                                      ![p].inserted = EmptyBag]
            /\ UNCHANGED lret
    /\ UNCHANGED <<transactions, backups>>
    /\ UNCHANGED authVars
    /\ UNCHANGED hostVars

\* database.py:171-182: import_database is called with a bound user; the
\* backup is read, decrypted and parsed
im_call(p, user_id, backup_path) ==
    /\ calls[p].pc = "idle"
    /\ ~Unauthenticated(user_id)
    /\ IF ~Readable(backup_path)
       THEN /\ lret' = [NoReturn EXCEPT !.op = "import_database", !.uid = user_id,
                                        !.path = backup_path, !.ok = FALSE]
            /\ UNCHANGED calls
       ELSE LET data == decrypt_data(backups[backup_path].content)
            IN /\ calls' = [calls EXCEPT ![p] =
                   Conn("im_delete", "import_database", user_id,
                        PyFloatOf(ValueOf(JsonNumber(data.salary))),
                        data.transactions, data.keys, backup_path)]
               /\ UNCHANGED lret
    /\ UNCHANGED <<salary, transactions, ledger, backups, writer>>
    /\ UNCHANGED authVars
    /\ UNCHANGED hostVars

\* database.py:185-188: the two DELETEs of the import
im_delete(p) ==
    /\ calls[p].pc = "im_delete"
    /\ WriteLockFree(p)
    /\ IF IsolationLevel = "autocommit"
       THEN /\ salary' = DeleteSalary(calls[p].uid)
            /\ transactions' = DeleteTransactions(calls[p].uid)
            /\ calls' = [calls EXCEPT ![p].pc = "im_commit"]
            /\ UNCHANGED writer
       ELSE /\ writer' = p
            /\ calls' = [calls EXCEPT ![p].pc = "im_commit",
                                      ![p].deleted = RowsOf(salary, calls[p].uid),
                                      ![p].tdeleted = RowsOf(transactions, calls[p].uid)]
            /\ UNCHANGED <<salary, transactions>>
    /\ UNCHANGED <<ledger, lret, backups>>
    /\ UNCHANGED authVars
    /\ UNCHANGED hostVars

\* The end of an import_database call
ImportReturns(p, ok) ==
    /\ lret' = [NoReturn EXCEPT !.op = "import_database", !.uid = calls[p].uid,
                                !.path = calls[p].path, !.ok = ok]
    /\ calls' = [calls EXCEPT ![p] = Idle]

\* database.py:189-194: the DELETEs are committed; then data['salary'] is
\* read, and update_salary called if it is not zero
im_commit(p) ==
    /\ calls[p].pc = "im_commit"
    /\ salary' = salary (-) calls[p].deleted
    /\ transactions' = transactions (-) calls[p].tdeleted
    /\ writer' = IF writer = p THEN 0 ELSE writer
    /\ ledger' = [ledger EXCEPT
                     !.set[calls[p].uid] = NoAmount,
                     !.prev[calls[p].uid] = NoAmount,
                     !.added = @ (-) RowsOf(@, calls[p].uid)]
    /\ IF "salary" \notin calls[p].keys
       THEN ImportReturns(p, FALSE)
       ELSE /\ calls' = [calls EXCEPT
                   ![p].pc = IF Truthy(calls[p].amount) THEN "us_delete" ELSE "im_add",
                   ![p].deleted = EmptyBag, ![p].tdeleted = EmptyBag]
            /\ UNCHANGED lret
    /\ UNCHANGED backups
    /\ UNCHANGED authVars
    /\ UNCHANGED hostVars

\* database.py:197-205: the next entry of the backup is added by
\* add_transaction, whose one INSERT is committed at once; after the last,
\* the import returns True
im_add(p) ==
    /\ calls[p].pc = "im_add"
    /\ IF "transactions" \notin calls[p].keys
       THEN ImportReturns(p, FALSE) /\ UNCHANGED <<transactions, ledger>>
       ELSE IF calls[p].todo = << >>
       THEN ImportReturns(p, TRUE) /\ UNCHANGED <<transactions, ledger>>
       ELSE IF ~IsDateText(Head(calls[p].todo).date)
       THEN ImportReturns(p, FALSE) /\ UNCHANGED <<transactions, ledger>>
       ELSE LET trans == Head(calls[p].todo)
                date == strptime(trans.date)
                amount == PyFloatOf(ValueOf(JsonNumber(trans.amount)))
            IN /\ WriteLockFree(p)
               /\ BagCardinality(transactions) < MaxTx
               /\ transactions' = transactions (+) SetToBag(
                     {TransactionRow(calls[p].uid, date, amount,
                                     trans.category, trans.description)})
               /\ ledger' = [ledger EXCEPT !.added = @ (+) SetToBag(
                     {[user_id |-> calls[p].uid, date |-> date, amount |-> amount,
                       category |-> trans.category,
                       description |-> trans.description]})]
               /\ calls' = [calls EXCEPT ![p].todo = Tail(@)]
               /\ UNCHANGED lret
    /\ UNCHANGED <<salary, backups, writer>>
    /\ UNCHANGED authVars
    /\ UNCHANGED hostVars

\* A write that has waited for the lock longer than the connection's timeout
\* raises sqlite3.OperationalError: update_salary passes it on, and
\* import_database catches it and returns False (database.py:206-208)
busy(p) ==
    /\ calls[p].pc \in {"us_delete", "im_delete"}
    /\ ~WriteLockFree(p)
    /\ IF calls[p].op = "update_salary"
       THEN /\ lret' = [NoReturn EXCEPT !.op = "update_salary", !.uid = calls[p].uid,
                           !.raised = "OperationalError: database is locked"]
            /\ calls' = [calls EXCEPT ![p] = Idle]
       ELSE ImportReturns(p, FALSE)
    /\ UNCHANGED <<salary, transactions, ledger, backups, writer>>
    /\ UNCHANGED authVars
    /\ UNCHANGED hostVars

-----------------------------------------------------------------------------
(* The encryption key *)

\* The AuthManager instances of the processes of the app
Instances == {1, 2, 3}

\* encryption.key does not exist; it exists and is empty
NoFile == "absent"
EmptyFile == ""
\* An AuthManager that has not been constructed
NoKey == "none"

\* auth_manager.py:16: Fernet.generate_key() draws a fresh random key, so the
\* keys two instances generate differ
GeneratedKey(i) == IF i = 1 THEN EncryptionKey ELSE IF i = 2 THEN "key2" ELSE "key3"

\* auth_manager.py:20-21: the key an instance loads from the file
LoadedKey(i) == key_file

\* auth_manager.py:14-15: if not self.key_file.exists()
init_exists(i) ==
    /\ constructing[i] = "idle"
    /\ encryption_key[i] = NoKey
    /\ constructing' = [constructing EXCEPT ![i] =
                            IF key_file = NoFile THEN "generate" ELSE "load"]
    /\ UNCHANGED <<app, key_file, encryption_key>>
    /\ UNCHANGED raceVars
    /\ UNCHANGED authVars
    /\ UNCHANGED ledgerVars

\* auth_manager.py:16: self.encryption_key = Fernet.generate_key()
init_generate(i) ==
    /\ constructing[i] = "generate"
    /\ encryption_key' = [encryption_key EXCEPT ![i] = GeneratedKey(i)]
    /\ constructing' = [constructing EXCEPT ![i] = "open"]
    /\ UNCHANGED <<app, key_file>>
    /\ UNCHANGED raceVars
    /\ UNCHANGED authVars
    /\ UNCHANGED ledgerVars

\* auth_manager.py:17: open(self.key_file, "wb") creates the file, or
\* truncates the one another instance has written
init_open(i) ==
    /\ constructing[i] = "open"
    /\ key_file' = EmptyFile
    /\ constructing' = [constructing EXCEPT ![i] = "write"]
    /\ UNCHANGED <<app, encryption_key>>
    /\ UNCHANGED raceVars
    /\ UNCHANGED authVars
    /\ UNCHANGED ledgerVars

\* auth_manager.py:18, 23: the key is written and the file closed; the
\* instance is constructed with the key it generated
init_write(i) ==
    /\ constructing[i] = "write"
    /\ key_file' = encryption_key[i]
    /\ constructing' = [constructing EXCEPT ![i] = "idle"]
    /\ UNCHANGED <<app, encryption_key>>
    /\ UNCHANGED raceVars
    /\ UNCHANGED authVars
    /\ UNCHANGED ledgerVars

\* auth_manager.py:20-23: the key is read from the file; Fernet() raises
\* ValueError on an empty key, and the instance is not constructed
init_load(i) ==
    /\ constructing[i] = "load"
    /\ encryption_key' = [encryption_key EXCEPT ![i] =
                             IF key_file = EmptyFile THEN NoKey ELSE LoadedKey(i)]
    /\ constructing' = [constructing EXCEPT ![i] = "idle"]
    /\ UNCHANGED <<app, key_file>>
    /\ UNCHANGED raceVars
    /\ UNCHANGED authVars
    /\ UNCHANGED ledgerVars

\* A later run: the process ends and its instance with it
restart(i) ==
    /\ constructing[i] = "idle"
    /\ encryption_key[i] # NoKey
    /\ encryption_key' = [encryption_key EXCEPT ![i] = NoKey]
    /\ UNCHANGED <<app, key_file, constructing>>
    /\ UNCHANGED raceVars
    /\ UNCHANGED authVars
    /\ UNCHANGED ledgerVars

\* auth_manager.py:199-201, by instance i
EncryptedBy(i, data) == [key |-> encryption_key[i], plain |-> data]
\* auth_manager.py:203-205, by instance j
DecryptableBy(j, encrypted_data) == encrypted_data.key = encryption_key[j]

-----------------------------------------------------------------------------
(* The app *)

\* The browser sessions of the app
Browsers == {1, 2}
\* app.py:14-20: st.session_state of a browser session nobody has logged in to
NoSessionState == [authenticated |-> FALSE, user_id |-> Unbound, token |-> NoToken]

\* app.py:40-50, 308-310: the Login button of the login page, shown while
\* the browser session is not authenticated.  The token is verified in the
\* same run, right after login has returned it; last keeps the result of
\* login.
app_login(s, username, password) ==
    /\ ~app[s].authenticated
    /\ login(username, password)
    /\ \E result \in Issued' \cup {NoToken} :
          /\ result = last'.token
          /\ app' = IF ~last'.ok THEN app
                    ELSE [app EXCEPT ![s] =
                            [authenticated |-> TRUE,
                             token |-> result,
                             user_id |-> IF (VerifyResult(result, clock)').ok
                                         THEN (VerifyResult(result, clock)').uid
                                         ELSE @.user_id]]

\* app.py:98-100, 129, 311-312: a run of the main app on the Dashboard page
app_dashboard(s) ==
    /\ app[s].authenticated
    /\ get_salary(app[s].user_id)

\* app.py:98-100, 248-249, 311-312: the Create Backup button
app_export(s) ==
    /\ app[s].authenticated
    /\ export_database(app[s].user_id, NoName)

\* app.py:106-111, 311-312: the Logout button
app_logout(s) ==
    /\ app[s].authenticated
    /\ logout(app[s].token)
    /\ app' = [app EXCEPT ![s] = NoSessionState]

-----------------------------------------------------------------------------
(* Specifications *)

\* Nobody is logged in to the app, and the key file has been written and
\* loaded by every instance.
InitHost ==
    /\ app = [s \in Browsers |-> NoSessionState]
    /\ key_file = EncryptionKey
    /\ encryption_key = [i \in Instances |-> EncryptionKey]
    /\ constructing = [i \in Instances |-> "idle"]

Init == InitAuth /\ InitLedger /\ InitRace /\ InitHost

\* What one account's owner registers with.
RegPassword == "hunter22"
RegAnswer == "Rex"
RegQuestion == "What was your first pet's name?"

(* Lockout and credentials: one account, any login and reset attempt *)
Next ==
    \/ \E e \in Emails : create_user("alice", RegPassword, e, RegQuestion, RegAnswer)
    \/ \E u \in Usernames, p \in Passwords : login(u, p) /\ UNCHANGED app
    \/ \E u \in Usernames, a \in Answers, p \in Passwords : reset_password(u, a, p)
    \/ \E t \in Instants : Tick(t)

Spec == Init /\ [][Next]_vars

(* Sessions: two accounts whose owners log in, verify and log out *)
NextSessions ==
    \/ \E u \in Usernames, e \in Emails :
          create_user(u, RegPassword, e, RegQuestion, RegAnswer)
    \/ \E u \in Usernames : login(u, RegPassword) /\ UNCHANGED app
    \/ \E t \in Presented : verify_token(t)
    \/ \E t \in Presented : logout(t) /\ UNCHANGED app
    \/ \E t \in SessionInstants : Tick(t)

SpecSessions == Init /\ [][NextSessions]_vars

(* Registration and recovery: every combination of the registration fields *)
NextUsers ==
    \/ \E u \in Usernames, p \in Passwords, e \in Emails, q \in Questions,
          a \in Answers : create_user(u, p, e, q, a)
    \/ \E u \in Usernames, a \in Answers, p \in Passwords : reset_password(u, a, p)

SpecUsers == Init /\ [][NextUsers]_vars

BoundIds == LedgerUsers \cup {Unbound}
DateArgs == {NoDate} \cup {PyDate(d) : d \in Days}

(* The salary of two users *)
NextSalary ==
    \/ \E u \in BoundIds, a \in Amounts : update_salary(u, a)
    \/ \E u \in BoundIds : get_salary(u)
    \/ \E t \in Instants : LedgerTick(t)

SpecSalary == Init /\ [][NextSalary]_vars

(* The transactions of two users *)
NextLedger ==
    \/ \E u \in BoundIds, d \in Days, b \in Purchases :
          add_transaction(u, PyDate(d), b.amount, b.category, b.description)
    \/ \E u \in BoundIds, s \in DateArgs, e \in DateArgs : get_transactions(u, s, e)

SpecLedger == Init /\ [][NextLedger]_vars

(* Backups: two users who fill their ledgers, export, list and import *)
BackupAmounts == {PyInt(5000)}
Rent == [amount |-> PyFloatOf(5000), category |-> "Needs", description |-> "rent"]
NameArgs == {NoName, BackupName(2, 0)}

NextBackup ==
    \/ \E u \in LedgerUsers, a \in BackupAmounts : update_salary(u, a)
    \/ \E u \in LedgerUsers :
          add_transaction(u, PyDate(1), Rent.amount, Rent.category, Rent.description)
    \/ \E u \in LedgerUsers, n \in NameArgs : export_database(u, n)
    \/ \E u \in LedgerUsers, f \in DOMAIN backups \cup {Missing} : import_database(u, f)
    \/ \E u \in LedgerUsers : list_backups(u)

SpecBackup == Init /\ [][NextBackup]_vars

(* Restoring: a file has been copied into the backup directory by hand *)

\* A key of another installation
OtherKey == "key0"

\* The documents of such files: well formed (with a salary, or with the 0.0
\* of a user who had none), no JSON at all, lacking a field, or with an
\* entry whose date is no date
Entry(day, purchase) ==
    [date |-> AdaptDate(PyDate(day)), amount |-> PyStr(purchase.amount),
     category |-> purchase.category, description |-> purchase.description]
WellFormedDoc ==
    [kind |-> "json", keys |-> {"salary", "transactions"},
     salary |-> PyStr(PyFloatOf(7000)),
     transactions |-> <<Entry(2, Rent), Entry(1, Rent)>>]
Documents ==
    {WellFormedDoc,
     [WellFormedDoc EXCEPT !.salary = PyStr(PyFloatOf(0))],
     [WellFormedDoc EXCEPT !.kind = "text"],
     [WellFormedDoc EXCEPT !.keys = {"transactions"}],
     [WellFormedDoc EXCEPT !.keys = {"salary"}],
     [WellFormedDoc EXCEPT !.transactions = <<Entry(2, Rent), Entry(0, Rent)>>]}
RestoredFiles ==
    {[content |-> [key |-> EncryptionKey, plain |-> d], mtime |-> 0, owner |-> 0] :
        d \in Documents}
    \cup {[content |-> [key |-> OtherKey, plain |-> WellFormedDoc],
           mtime |-> 0, owner |-> 0]}

InitRestore ==
    /\ InitAuth
    /\ InitRace
    /\ InitHost
    /\ salary = EmptyBag
    /\ transactions = EmptyBag
    /\ ledger = [set |-> [u \in LedgerUsers |-> NoAmount],
                 prev |-> [u \in LedgerUsers |-> NoAmount],
                 added |-> EmptyBag]
    /\ lret = NoReturn
    /\ \E f \in RestoredFiles : backups = [n \in {Restored} |-> f]

NextRestore ==
    \/ \E u \in LedgerUsers, a \in BackupAmounts : update_salary(u, a)
    \/ \E u \in LedgerUsers :
          add_transaction(u, PyDate(1), Rent.amount, Rent.category, Rent.description)
    \/ \E u \in LedgerUsers, f \in {Restored, Missing} : import_database(u, f)

SpecRestore == InitRestore /\ [][NextRestore]_vars

(* No bound user: every operation on a ledger that one user has filled *)
NextUnbound ==
    \/ \E u \in {1, Unbound}, a \in BackupAmounts : update_salary(u, a)
    \/ \E u \in {1, Unbound} : get_salary(u)
    \/ \E u \in {1, Unbound} :
          add_transaction(u, PyDate(1), Rent.amount, Rent.category, Rent.description)
    \/ \E u \in {1, Unbound}, d \in {NoDate, PyDate(1)} : get_transactions(u, d, d)
    \/ \E u \in {1, Unbound}, d \in {NoDate, PyDate(1)} : get_category_totals(u, d, d)
    \/ \E u \in {1, Unbound}, n \in NameArgs : export_database(u, n)
    \/ \E u \in {1, Unbound}, f \in DOMAIN backups \cup {Missing} : import_database(u, f)
    \/ \E u \in {1, Unbound} : list_backups(u)

SpecUnbound == Init /\ [][NextUnbound]_vars

(* Concurrent logins to one account *)
NextRace ==
    \/ create_user("alice", RegPassword, "a@x.org", RegQuestion, RegAnswer)
    \/ \E p \in Procs, w \in Passwords : login_select(p, "alice", w)
    \/ \E p \in Procs : login_finish(p)
    \/ \E t \in Offsets : Tick(t)

SpecRace == Init /\ [][NextRace]_vars

(* Concurrent updates, imports and reads of the salary *)
RaceAmounts == {PyInt(5000), PyFloatOf(123456)}

\* A backup that user 1 exported earlier
Exported ==
    [content |-> encrypt_data(json_dumps([salary |-> PyFloatOf(7000),
                                          transactions |-> << >>])),
     mtime |-> 0, owner |-> 1]

InitLedgerRace ==
    /\ InitAuth
    /\ InitRace
    /\ InitHost
    /\ salary = EmptyBag
    /\ transactions = EmptyBag
    /\ ledger = [set |-> [u \in LedgerUsers |-> NoAmount],
                 prev |-> [u \in LedgerUsers |-> NoAmount],
                 added |-> EmptyBag]
    /\ lret = NoReturn
    /\ backups = [n \in {BackupName(1, 0)} |-> Exported]

NextLedgerRace ==
    \/ \E p \in Procs, u \in LedgerUsers, a \in RaceAmounts : us_call(p, u, a)
    \/ \E p \in Procs : us_delete(p)
    \/ \E p \in Procs : us_insert(p)
    \/ \E p \in Procs : us_commit(p)
    \/ \E p \in Procs, u \in LedgerUsers, f \in {BackupName(1, 0), Missing} :
          im_call(p, u, f)
    \/ \E p \in Procs : im_delete(p)
    \/ \E p \in Procs : im_commit(p)
    \/ \E p \in Procs : im_add(p)
    \/ \E p \in Procs : busy(p)
    \/ \E u \in LedgerUsers : get_salary(u)

SpecLedgerRace == InitLedgerRace /\ [][NextLedgerRace]_vars

(* First run: the instances are constructed while no key file exists *)
InitKeys ==
    /\ InitAuth
    /\ InitLedger
    /\ InitRace
    /\ app = [s \in Browsers |-> NoSessionState]
    /\ key_file = NoFile
    /\ encryption_key = [i \in Instances |-> NoKey]
    /\ constructing = [i \in Instances |-> "idle"]

NextKeys ==
    \/ \E i \in Instances : init_exists(i)
    \/ \E i \in Instances : init_generate(i)
    \/ \E i \in Instances : init_open(i)
    \/ \E i \in Instances : init_write(i)
    \/ \E i \in Instances : init_load(i)
    \/ \E i \in Instances : restart(i)

SpecKeys == InitKeys /\ [][NextKeys]_vars

(* The app: two browser sessions whose users log in, work and log out *)
\* The address each user registers with
RegEmail(u) == IF u = "alice" THEN "a@x.org" ELSE "b@x.org"

NextApp ==
    \/ \E u \in Usernames :
          create_user(u, RegPassword, RegEmail(u), RegQuestion, RegAnswer)
    \/ \E s \in Browsers, u \in Usernames : app_login(s, u, RegPassword)
    \/ \E s \in Browsers : app_dashboard(s)
    \/ \E s \in Browsers : app_export(s)
    \/ \E s \in Browsers : app_logout(s)
    \/ Tick(SESSION_MINUTES)

SpecApp == Init /\ [][NextApp]_vars

-----------------------------------------------------------------------------
(* Properties of the AuthManager *)

IdOf(username) == CHOOSE i \in UserIds(username) : TRUE

InvalidMessage == "Invalid username or password"
LockedMessage == "Account is locked. Try again later."

\* C1: after 5 consecutive wrong-password logins of a registered user (no
\* successful login in between) the account is locked for 30 minutes from
\* the fifth, and a login made inside that window fails with the
\* account-locked result even with the right password; a login with the
\* right password made once the window has elapsed succeeds, returns a token
\* and leaves failed_attempts = 0 and locked_until = NULL.
C1_Lockout ==
    [][\A u \in Usernames, p \in Passwords :
         (login(u, p) /\ UserIds(u) # {}) =>
            LET id == IdOf(u)
                user == users[id]
            IN /\ streak[u] >= MAX_FAILED =>
                    /\ user.locked_until # NULL
                    /\ (clock < user.locked_until =>
                          ~last'.ok /\ last'.msg = LockedMessage)
               /\ (streak[u] < MAX_FAILED /\ streak'[u] >= MAX_FAILED) =>
                    users'[id].locked_until = clock + LOCK_MINUTES
               /\ (/\ user.locked_until # NULL
                   /\ clock >= user.locked_until
                   /\ p = creds[u].password) =>
                    /\ last'.ok
                    /\ last'.token # NoToken
                    /\ users'[id].failed_attempts = 0
                    /\ users'[id].locked_until = NULL
      ]_vars

\* A login with the right password has succeeded on an account whose lock
\* window had elapsed.
C1_Witness ==
    /\ last.op = "login"
    /\ last.ok
    /\ last.right
    /\ last.pre_locked # NULL
    /\ clock >= last.pre_locked
    /\ users[IdOf(last.user)].failed_attempts = 0

\* C2: a token returned by a successful login verifies (valid, with the
\* user_id of its owner) right after it is issued, and every verify_token
\* of a token made after logout of that token fails.
C2_LogoutRevokes ==
    /\ (last.op = "login" /\ last.ok) =>
          /\ VerifyResult(last.token, clock).ok
          /\ VerifyResult(last.token, clock).uid = last.uid
    /\ (last.op = "verify_token" /\ last.tok \in revoked) => ~last.ok

\* C3: verify_token succeeds only if the token is signed with the secret,
\* its embedded expiry has not passed and the sessions table holds a row
\* with that very token that expires later than now; a badly signed token is
\* rejected as invalid, a well signed one past its expiry as expired, and a
\* well signed, unexpired one without such a row is rejected.
C3_VerifyNeedsBoth ==
    last.op = "verify_token" =>
       LET signed == last.tok.sig = JwtSecret
           unexpired == last.tok.exp > clock
           row == \E s \in BagToSet(sessions) :
                     s.token = last.tok /\ s.expires_at > clock
       IN /\ last.ok <=> (signed /\ unexpired /\ row)
          /\ ~signed => (~last.ok /\ last.msg = "Invalid token")
          /\ (signed /\ ~unexpired) => (~last.ok /\ last.msg = "Token has expired")
          /\ (signed /\ unexpired /\ ~row) => (~last.ok /\ last.msg = "None")

\* A well signed, unexpired token whose session was logged out is rejected.
C3_Witness ==
    /\ last.op = "verify_token"
    /\ ~last.ok
    /\ last.msg = "None"
    /\ last.tok \in revoked
    /\ last.tok.sig = JwtSecret
    /\ last.tok.exp > clock

\* C4: every successful login issues a token that no earlier login has
\* issued, so no two rows of the sessions table hold the same token.
C4_TokensUnique ==
    [][\A u \in Usernames, p \in Passwords :
         (login(u, p) /\ last'.ok) =>
            /\ last'.token \notin Issued
            /\ \A r \in BagToSet(sessions') :
                  /\ CopiesIn(r, sessions') = 1
                  /\ \A o \in BagToSet(sessions') : o.token = r.token => o = r
      ]_vars

\* C5: create_user returns True and adds one row when neither the username
\* nor the email is present, returns False and leaves the table as it was
\* when either is, whatever the other fields; usernames and emails stay
\* unique.
C5_CreateUser ==
    [][\A u \in Usernames, p \in Passwords, e \in Emails, q \in Questions,
          a \in Answers :
         create_user(u, p, e, q, a) =>
            LET names == {users[i].username : i \in DOMAIN users}
                mails == {users[i].email : i \in DOMAIN users}
            IN /\ IF u \in names \/ e \in mails
                  THEN ~last'.ok /\ users' = users
                  ELSE /\ last'.ok
                       /\ Len(users') = Len(users) + 1
                       /\ SubSeq(users', 1, Len(users)) = users
                       /\ users'[Len(users')].username = u
                       /\ users'[Len(users')].email = e
               /\ \A i \in DOMAIN users' : \A j \in DOMAIN users' :
                     i # j => /\ users'[i].username # users'[j].username
                              /\ users'[i].email # users'[j].email
      ]_vars

\* A registration under a new username is refused for its email alone.
C5_Witness ==
    /\ last.op = "create_user"
    /\ ~last.ok
    /\ UserIds(last.user) = {}
    /\ \E i \in DOMAIN users : users[i].email = last.arg

\* C6: a login for a user whose locked_until is in the future fails with
\* the account-locked result whatever the password, and changes neither the
\* user's row (failed_attempts, locked_until, last_login) nor the sessions.
C6_LockedLoginChangesNothing ==
    [][\A u \in Usernames, p \in Passwords :
         (/\ login(u, p)
          /\ UserIds(u) # {}
          /\ users[IdOf(u)].locked_until # NULL
          /\ clock < users[IdOf(u)].locked_until) =>
            /\ ~last'.ok
            /\ last'.msg = LockedMessage
            /\ users' = users
            /\ sessions' = sessions
      ]_vars

\* A login with a wrong password was refused as locked and was not counted.
C6_Witness ==
    /\ last.op = "login"
    /\ last.msg = LockedMessage
    /\ ~last.right
    /\ clock < last.pre_locked
    /\ users[IdOf(last.user)].failed_attempts = MAX_FAILED

\* C7: for a user who is not locked, login with a wrong password returns
\* the very result login returns for an unknown username (False, "Invalid
\* username or password"), also on the attempt that locks the account; a
\* login made while the account is locked returns another message.
C7_SameFailure ==
    last.op = "login" =>
       LET known == UserIds(last.user) # {}
           locked == last.pre_locked # NULL /\ clock < last.pre_locked
       IN /\ (~known \/ (~locked /\ ~last.right)) =>
                (~last.ok /\ last.msg = InvalidMessage)
          /\ (known /\ locked) => (~last.ok /\ last.msg # InvalidMessage)

\* The wrong-password login that locked the account.
C7_Witness ==
    /\ last.op = "login"
    /\ UserIds(last.user) # {}
    /\ ~last.right
    /\ last.msg = InvalidMessage
    /\ last.pre_locked = NULL
    /\ users[IdOf(last.user)].locked_until = clock + LOCK_MINUTES

\* Two answers that differ at most in the case of their letters
SameLetters == {{"Rex", "rex", "REX"}, {"Tom"}}
EqualIgnoringCase(a, b) == \E c \in SameLetters : a \in c /\ b \in c

\* C8: reset_password succeeds when the answer equals the registered one
\* ignoring letter case, and from then on login accepts the new password and
\* no other; for an unknown username or a wrong answer it returns False and
\* leaves the stored hash as it was, so that login still accepts the old
\* password.
C8_ResetPassword ==
    [][/\ \A u \in Usernames, a \in Answers, p \in Passwords :
            reset_password(u, a, p) =>
               IF UserIds(u) # {} /\ EqualIgnoringCase(a, creds[u].answer)
               THEN /\ last'.ok
                    /\ \A q \in Passwords :
                          verify_password(q, users'[IdOf(u)].password_hash)
                             <=> q = p
               ELSE ~last'.ok /\ users' = users /\ creds' = creds
       /\ \A u \in Usernames, p \in Passwords :
            (login(u, p) /\ UserIds(u) # {}
                /\ ~(users[IdOf(u)].locked_until # NULL
                        /\ clock < users[IdOf(u)].locked_until)) =>
               (last'.ok <=> p = creds[u].password)
      ]_vars

\* A login with the new password has succeeded after a reset whose answer
\* was given in another case than the registered one.
C8_Witness ==
    /\ last.op = "login"
    /\ last.ok
    /\ creds[last.user].password # RegPassword

\* C17: no increment of failed_attempts is lost when wrong-password logins
\* to an unlocked account run concurrently: failed_attempts counts every
\* completed wrong-password login since the last successful one, so five of
\* them have locked the account.
C17_NoLostIncrement ==
    \A i \in DOMAIN users :
        /\ Min(users[i].failed_attempts, MAX_FAILED) = streak[users[i].username]
        /\ streak[users[i].username] = MAX_FAILED => users[i].locked_until # NULL

\* C18: in every reachable state locked_until is non-null only if
\* failed_attempts >= 5, failed_attempts is never negative, and a
\* wrong-password login that leaves failed_attempts below 5 leaves
\* locked_until NULL.
C18_LockedOnlyAtFive ==
    \A i \in DOMAIN users :
        /\ users[i].failed_attempts >= 0
        /\ users[i].locked_until # NULL => users[i].failed_attempts >= MAX_FAILED
        /\ (/\ last.op = "login" /\ last.user = users[i].username
            /\ ~last.ok /\ last.msg = InvalidMessage
            /\ users[i].failed_attempts < MAX_FAILED) => users[i].locked_until = NULL

\* A wrong-password login that had read the row before the account was
\* locked has written its count, below 5, over the lock.
C18_Witness ==
    \E i \in DOMAIN users :
        /\ last.op = "login" /\ ~last.ok /\ last.msg = InvalidMessage
        /\ streak[users[i].username] = MAX_FAILED
        /\ users[i].failed_attempts \in 1..(MAX_FAILED - 1)
        /\ users[i].locked_until = NULL

\* C22: reset_password, succeed or fail and locked or not, changes no
\* user's failed_attempts, locked_until or last_login and adds or removes no
\* session row; on success only the password_hash of the user changes, and
\* on failure nothing does.
C22_ResetLeavesLockout ==
    [][\A u \in Usernames, a \in Answers, p \in Passwords :
         reset_password(u, a, p) =>
            /\ sessions' = sessions
            /\ DOMAIN users' = DOMAIN users
            /\ \A i \in DOMAIN users :
                  /\ users'[i].failed_attempts = users[i].failed_attempts
                  /\ users'[i].locked_until = users[i].locked_until
                  /\ users'[i].last_login = users[i].last_login
                  /\ users'[i] = [users[i] EXCEPT !.password_hash =
                                                     users'[i].password_hash]
                  /\ (~last'.ok \/ users[i].username # u) => users'[i] = users[i]
      ]_vars

\* A reset has succeeded on an account that is locked, has logged in before
\* and holds a session: the lock and the session are still there.
C22_Witness ==
    /\ last.op = "reset_password"
    /\ last.ok
    /\ creds[last.user].password # RegPassword
    /\ users[IdOf(last.user)].failed_attempts >= MAX_FAILED
    /\ users[IdOf(last.user)].locked_until # NULL
    /\ clock < users[IdOf(last.user)].locked_until
    /\ users[IdOf(last.user)].last_login # NULL
    /\ sessions # EmptyBag

\* C24: the counter is not reset when a lock expires: the passing of time
\* changes no user row, and once the lock window has elapsed one further
\* wrong password takes failed_attempts from 5 or more to one higher and
\* locks the account again for LOCK_MINUTES from that attempt; only a login
\* with the right password puts failed_attempts back to 0.
C24_RelockAfterExpiry ==
    [][/\ \A t \in Instants : Tick(t) => users' = users
       /\ \A u \in Usernames, p \in Passwords :
            (/\ login(u, p)
             /\ UserIds(u) # {}
             /\ users[IdOf(u)].locked_until # NULL
             /\ clock >= users[IdOf(u)].locked_until) =>
               LET id == IdOf(u)
                   user == users[id]
               IN /\ user.failed_attempts >= MAX_FAILED
                  /\ IF verify_password(p, user.password_hash)
                     THEN /\ last'.ok
                          /\ users'[id].failed_attempts = 0
                          /\ users'[id].locked_until = NULL
                     ELSE /\ ~last'.ok
                          /\ last'.msg = InvalidMessage
                          /\ users'[id].failed_attempts = user.failed_attempts + 1
                          /\ users'[id].locked_until = clock + LOCK_MINUTES
      ]_vars

\* A sixth wrong password, given after the lock of the fifth had expired,
\* has locked the account again.
C24_Witness ==
    /\ last.op = "login"
    /\ ~last.ok
    /\ ~last.right
    /\ last.pre_locked # NULL
    /\ clock >= last.pre_locked
    /\ users[IdOf(last.user)].failed_attempts = MAX_FAILED + 1
    /\ users[IdOf(last.user)].locked_until = clock + LOCK_MINUTES

\* C25: logout(token) returns success and removes the session rows of that
\* token and no other row, so every other token, of the same user or of
\* another, verifies after it exactly as before; a logout of a token that
\* has no row changes nothing.
C25_LogoutOnlyThatToken ==
    [][\A t \in Presented :
         logout(t) =>
            /\ last'.ok
            /\ users' = users
            /\ \A r \in BagToSet(sessions) :
                  CopiesIn(r, sessions') = IF r.token = t THEN 0
                                           ELSE CopiesIn(r, sessions)
            /\ BagToSet(sessions') \subseteq BagToSet(sessions)
            /\ \A o \in Presented \ {t} :
                  VerifyResult(o, clock)' = VerifyResult(o, clock)
            /\ (\A r \in BagToSet(sessions) : r.token # t) => sessions' = sessions
      ]_vars

\* A user held two sessions and has logged out of one: the token of the
\* other still verifies.
C25_Witness ==
    /\ last.op = "logout"
    /\ last.tok \in revoked
    /\ ~VerifyResult(last.tok, clock).ok
    /\ \E o \in Issued \ {last.tok} :
          /\ o.user_id = last.tok.user_id
          /\ VerifyResult(o, clock).ok

-----------------------------------------------------------------------------
(* Properties of the BudgetDatabase *)

\* C9: get_salary returns the amount of the user's most recent
\* update_salary (as a float of the same value), whatever other users have
\* set, and 0.0 when the user has never set a salary.
C9_LatestSalary ==
    (lret.op = "get_salary" /\ lret.uid \in LedgerUsers) =>
       IF ledger.set[lret.uid] = NoAmount
       THEN lret.amount = PyFloatOf(0)
       ELSE /\ lret.amount.kind = "float"
            /\ NumEq(lret.amount, ledger.set[lret.uid])

\* get_salary returns the second of two different salaries of a user, while
\* the other user holds another salary.
C9_Witness ==
    /\ lret.op = "get_salary"
    /\ lret.uid \in LedgerUsers
    /\ ledger.prev[lret.uid] # NoAmount
    /\ ~NumEq(ledger.prev[lret.uid], ledger.set[lret.uid])
    /\ NumEq(lret.amount, ledger.set[lret.uid])
    /\ \E o \in LedgerUsers :
          /\ o # lret.uid
          /\ ledger.set[o] # NoAmount
          /\ ~NumEq(ledger.set[o], ledger.set[lret.uid])

\* The caller's view of a transaction: the day, the value of the amount, the
\* category and the description.
PlainOfEntry(entry) ==
    [day |-> entry.date.day, amount |-> entry.amount.v,
     category |-> entry.category, description |-> entry.description]
PlainOfCall(call) ==
    [day |-> call.date.day, amount |-> call.amount.v,
     category |-> call.category, description |-> call.description]

\* How many add_transaction calls of a user passed the transaction plain
AddedCount(user_id, plain) ==
    LET same(c) == c.user_id = user_id /\ PlainOfCall(c) = plain
    IN BagCardinality(BagFilter(ledger.added, same))

\* C10: get_transactions() without dates returns one entry per
\* add_transaction call of the bound user and no other, each with the date,
\* amount, category and description that were passed in.
C10_TransactionsRoundTrip ==
    (/\ lret.op = "get_transactions"
     /\ lret.uid \in LedgerUsers
     /\ lret.start = NoDate
     /\ lret.end = NoDate) =>
       /\ Len(lret.rows) =
             BagCardinality(BagFilter(ledger.added,
                                      LAMBDA c : c.user_id = lret.uid))
       /\ \A i \in DOMAIN lret.rows :
             /\ lret.rows[i].amount.kind = "float"
             /\ Cardinality({j \in DOMAIN lret.rows :
                               PlainOfEntry(lret.rows[j]) = PlainOfEntry(lret.rows[i])})
                   = AddedCount(lret.uid, PlainOfEntry(lret.rows[i]))

\* get_transactions() returns the two different transactions of a user
\* while the other user has one of their own.
C10_Witness ==
    /\ lret.op = "get_transactions"
    /\ lret.uid \in LedgerUsers
    /\ lret.start = NoDate
    /\ lret.end = NoDate
    /\ Len(lret.rows) = 2
    /\ lret.rows[1].description # lret.rows[2].description
    /\ BagCardinality(transactions) = 3


\* The table row a returned row was read from
StoredRow(row) ==
    [user_id |-> row.user_id, date |-> row.date,
     amount_encrypted |-> row.amount_encrypted, category |-> row.category,
     description_encrypted |-> row.description_encrypted]

\* The date satisfies every bound that is given
WithinBounds(day, start_date, end_date) ==
    /\ start_date # NoDate => start_date.day <= day
    /\ end_date # NoDate => day <= end_date.day

\* C11: get_transactions(start_date, end_date) returns the bound user's
\* transactions by date descending, and exactly those whose date satisfies
\* every bound that is given, inclusively, also when only one bound is given.
C11_DateBounds ==
    (lret.op = "get_transactions" /\ lret.raised = "") =>
        /\ DateDescending(lret.rows)
        /\ LET mine(r) == /\ r.user_id = lret.uid
                          /\ WithinBounds(r.date.day, lret.start, lret.end)
           IN SeqToBag([i \in DOMAIN lret.rows |-> StoredRow(lret.rows[i])])
                 = BagFilter(transactions, mine)


-----------------------------------------------------------------------------
(* Properties of the backups *)

\* The salary of a user as get_salary reports it on the table given
SalaryValues(table, user_id) ==
    LET rows == {r \in BagToSet(table) : r.user_id = user_id}
    IN IF rows = {} THEN {0}
       ELSE {ValueOf(PyFloat(decrypt_data(r.amount_encrypted))) : r \in rows}

\* The transactions of a user on the table given, by their plaintext
PlainRows(table, user_id) ==
    LET rows == BagToSet(table)
        plain(r) == [day |-> r.date.day,
                     v |-> ValueOf(PyFloat(decrypt_data(r.amount_encrypted))),
                     category |-> r.category,
                     description |-> decrypt_data(r.description_encrypted)]
        mine == {r \in rows : r.user_id = user_id}
    IN [x \in {plain(r) : r \in mine} |->
           BagCardinality([r \in {m \in mine : plain(m) = x} |-> table[r]])]

\* The transactions of a document, by their plaintext
DocRows(doc) ==
    SeqToBag([i \in DOMAIN doc.transactions |->
                 [day |-> doc.transactions[i].date.day,
                  v |-> doc.transactions[i].amount.digits,
                  category |-> doc.transactions[i].category,
                  description |-> doc.transactions[i].description]])

\* The rows of a table that are not the user's
RowsOfOthers(table, user_id) ==
    LET others(r) == r.user_id # user_id
    IN [r \in {x \in BagToSet(table) : others(x)} |-> table[r]]

DocOf(backup_path) == decrypt_data(backups[backup_path].content)

\* C12: for every ledger state export_database completes with a backup
\* location whose file holds the salary and the transactions of the user, and
\* import_database of a backup the user exported returns True and leaves the
\* user with the salary and the multiset of transactions of that backup.
C12_ExportImportRoundTrip ==
    [][/\ \A u \in LedgerUsers, n \in NameArgs :
             export_database(u, n) =>
                 /\ lret'.raised = ""
                 /\ lret'.path \in DOMAIN backups'
                 /\ LET doc == decrypt_data(backups'[lret'.path].content)
                    IN /\ SalaryValues(salary, u) = {doc.salary.digits}
                       /\ PlainRows(transactions, u) = DocRows(doc)
       /\ \A u \in LedgerUsers, f \in DOMAIN backups :
             (import_database(u, f) /\ backups[f].owner = u) =>
                 /\ lret'.ok
                 /\ SalaryValues(salary', u) = {DocOf(f).salary.digits}
                 /\ PlainRows(transactions', u) = DocRows(DocOf(f))]_vars

\* The backup cannot be read, decrypted or parsed, lacks a field or holds a
\* malformed entry
BackupError(backup_path) ==
    \/ backup_path \notin DOMAIN backups
    \/ backups[backup_path].content.key # EncryptionKey
    \/ DocOf(backup_path).kind # "json"
    \/ ~({"salary", "transactions"} \subseteq DocOf(backup_path).keys)
    \/ \E i \in DOMAIN DocOf(backup_path).transactions :
          DocOf(backup_path).transactions[i].date.day < 1

\* C13: on any decryption or parse error of the backup (a missing file, a
\* ciphertext of another key, a payload that is no JSON, a payload lacking
\* the salary or transactions field or with a malformed entry)
\* import_database returns False and leaves every salary and transaction row
\* untouched.
C13_FailedImportChangesNothing ==
    [][\A u \in LedgerUsers, f \in {Restored, Missing} :
          (import_database(u, f) /\ BackupError(f)) =>
              /\ lret'.ok = FALSE
              /\ UNCHANGED <<salary, transactions>>]_vars

\* C14: when import_database returns True for user U, the salary and the
\* transactions of U are exactly those of the snapshot and the rows of every
\* other user are unchanged; an import of a backup that cannot be put in
\* place whole (it is missing, unreadable, lacks a field or holds a malformed
\* entry) returns False.
C14_ImportReplaces ==
    [][\A u \in LedgerUsers, f \in {Restored, Missing} :
          import_database(u, f) =>
              /\ RowsOfOthers(salary', u) = RowsOfOthers(salary, u)
              /\ RowsOfOthers(transactions', u) = RowsOfOthers(transactions, u)
              /\ lret'.ok =>
                    /\ SalaryValues(salary', u) = {DocOf(f).salary.digits}
                    /\ BagCardinality(salary') - BagCardinality(RowsOfOthers(salary', u)) <= 1
                    /\ PlainRows(transactions', u) = DocRows(DocOf(f))
              /\ BackupError(f) => lret'.ok = FALSE]_vars

\* A snapshot with transactions has replaced a salary the user had set, next
\* to the rows of another user.
C14_Witness ==
    /\ lret.op = "import_database" /\ lret.ok
    /\ DocRows(DocOf(lret.path)) # EmptyBag
    /\ ledger.set[lret.uid] = PyFloatOf(7000)
    /\ RowsOfOthers(salary, lret.uid) # EmptyBag
    /\ RowsOfOthers(transactions, lret.uid) # EmptyBag

\* C15: no operation of bound user B returns or writes data derived from the
\* records of another user A: list_backups lists only files B exported, and
\* import_database of a file that A exported leaves the rows of B as they
\* are.
C15_NoCrossUser ==
    [][/\ \A b \in LedgerUsers :
             list_backups(b) =>
                 \A i \in DOMAIN lret'.files : backups[lret'.files[i]].owner = b
       /\ \A b \in LedgerUsers, f \in DOMAIN backups :
             (import_database(b, f) /\ backups[f].owner \in LedgerUsers \ {b}) =>
                 /\ SalaryValues(salary', b) = SalaryValues(salary, b)
                 /\ PlainRows(transactions', b) = PlainRows(transactions, b)]_vars

\* A call of one of the eight operations with no bound user
CalledUnbound ==
    \/ \E a \in BackupAmounts : update_salary(Unbound, a)
    \/ get_salary(Unbound)
    \/ add_transaction(Unbound, PyDate(1), Rent.amount, Rent.category, Rent.description)
    \/ \E d \in {NoDate, PyDate(1)} : get_transactions(Unbound, d, d)
    \/ \E d \in {NoDate, PyDate(1)} : get_category_totals(Unbound, d, d)
    \/ \E n \in NameArgs : export_database(Unbound, n)
    \/ \E f \in DOMAIN backups \cup {Missing} : import_database(Unbound, f)
    \/ list_backups(Unbound)

\* C16: every ledger and backup operation called with no bound user raises
\* the unauthenticated error, returns no data and leaves the salary rows, the
\* transaction rows and the backup files as they are.
C16_Unauthenticated ==
    [][CalledUnbound =>
          /\ lret'.raised = "ValueError: User not authenticated"
          /\ lret'.amount = NoAmount /\ lret'.rows = << >>
          /\ lret'.totals = << >> /\ lret'.files = << >>
          /\ lret'.ok = FALSE /\ lret'.path = NoName
          /\ UNCHANGED <<salary, transactions, backups>>]_vars

\* An import without a bound user has been refused on a ledger that holds a
\* salary, a transaction and a backup.
C16_Witness ==
    /\ lret.op = "import_database"
    /\ lret.uid = Unbound
    /\ lret.raised = "ValueError: User not authenticated"
    /\ salary # EmptyBag /\ transactions # EmptyBag /\ DOMAIN backups # {}


-----------------------------------------------------------------------------
(* Properties of the concurrent ledger calls *)

\* C19: in every committed state reached by interleaved update_salary,
\* import_database and get_salary calls the salary table holds at most one
\* row per user.
C19_OneSalaryRow ==
    \A u \in LedgerUsers : BagCardinality(RowsOf(salary, u)) <= 1

\* A user has a salary row while an update_salary and an import_database of
\* that user are both between their first statement and their return.
C19_Witness ==
    \E u \in LedgerUsers :
        /\ BagCardinality(RowsOf(salary, u)) = 1
        /\ \A p \in Procs : calls[p].pc # "idle" /\ calls[p].uid = u
        /\ \E p \in Procs : calls[p].op = "import_database"
        /\ \E p \in Procs : calls[p].op = "update_salary"
        /\ \E p \in Procs : calls[p].pc = "us_commit"

\* C20: a get_salary that runs while an update_salary of a user who already
\* has a salary is between its DELETE and its commit returns the amount that
\* is committed, never 0 for want of a row.
C20_NeverZeroRows ==
    [][\A u \in LedgerUsers :
          (get_salary(u) /\ ledger.set[u] # NoAmount) =>
              /\ ValueOf(lret'.amount) # 0
              /\ NumEq(lret'.amount, ledger.set[u])]_vars

\* get_salary has returned the old amount of a user whose update_salary has
\* deleted the old row and inserted the new one, but not committed.
C20_Witness ==
    /\ lret.op = "get_salary"
    /\ \E p \in Procs :
          /\ calls[p].pc = "us_commit" /\ calls[p].op = "update_salary"
          /\ calls[p].uid = lret.uid
          /\ calls[p].deleted # EmptyBag
          /\ NumEq(lret.amount, ledger.set[lret.uid])
          /\ ~NumEq(lret.amount, calls[p].amount)


-----------------------------------------------------------------------------
(* Properties of the encryption key *)

\* C21: all AuthManager instances, those constructed concurrently on first
\* run included, end up with the key that the key file holds, so what one
\* instance encrypts every other instance and every later run decrypts.
C21_OneKey ==
    (\A i \in Instances : constructing[i] = "idle") =>
        \A i \in Instances : encryption_key[i] # NoKey =>
            /\ encryption_key[i] = key_file
            /\ \A j \in Instances : encryption_key[j] # NoKey =>
                  DecryptableBy(j, EncryptedBy(i, "5000.0"))

-----------------------------------------------------------------------------
(* Properties of the app *)

\* C23: every ledger or backup operation of the app is performed under the
\* user id of a session that verifies at the time of the request: the token
\* of the browser session verifies then, and for that user id; once it has
\* expired or been revoked the app performs no ledger operation.
C23_VerifiedAtRequest ==
    [][\A s \in Browsers :
         (app_dashboard(s) \/ app_export(s)) =>
            /\ VerifyResult(app[s].token, clock).ok
            /\ VerifyResult(app[s].token, clock).uid = app[s].user_id
      ]_vars

====
